---- MODULE Spec2Model ----
(***************************************************************************)
(* A model of RoundedPath.js (createRoundedPath) and of the two NavLine    *)
(* classes of NavLine.js (the screen-space variant, lines 52-461, and the  *)
(* world-unit variant, lines 517-844).                                     *)
(*                                                                         *)
(* Numbers.  The program computes in floating point; the model computes    *)
(* in integers on inputs for which the program's arithmetic is exact:      *)
(*   - a point is <<x, y>> in a plane (the third coordinate of a Vector3   *)
(*     is constant), in model units of 1/Scale world unit;                 *)
(*   - control points have even coordinates and consecutive control        *)
(*     points differ along one axis only, so distanceTo is |dx| + |dy|,    *)
(*     dist / 2 is an integer and normalize() yields a unit axis vector.   *)
(***************************************************************************)
EXTENDS Integers, Sequences, FiniteSets, TLC

\* ---------------------------------------------------------------- bounds
\* Model units per world unit (a segment of 2 units is 0.25 world units).
Scale == 8
\* Longest control segment, in steps of 2 model units.
MaxSeg == 2
\* Most control points of a polyline given to createRoundedPath.
MaxPoints == 4
\* Largest requested corner radius, in model units.
MaxRadius == 2
\* Progress and segment limits are multiples of 1 / ProgressDen.
ProgressDen == 2
\* Most traffic segments of a list given to _getColor.
MaxTraffic == 2
\* The sum of the time steps (deltaTime) given to update stays <= MaxElapsed.
MaxElapsed == 1
\* Most NavLine instances constructed in one module.
MaxInstances == 3
\* The meshes one NavLine builds: the constructor's and the rebuilds'.
MaxBuilds == 3
\* The frames drawn of one fragment.
MaxFrames == 2
\* The shader's floats are fixed-point numbers, rounded down: distances on
\* the screen are in 1 / PixelSteps pixel, and an opacity factor of 1.0 is
\* FadeSteps ^ 3 (the cube of a ratio kept in 1 / FadeSteps).
PixelSteps == 100
FadeSteps == 1000

VARIABLES
    points,          \* createRoundedPath: the argument `points`
    radius,          \* createRoundedPath: the argument `radius`
    path,            \* createRoundedPath: the CurvePath being returned (its curves)
    returned,        \* createRoundedPath: whether the call has returned
    progress,        \* _getColor: the argument `progress`, <<numerator, denominator>>
    trafficData,     \* _getColor: the argument `trafficData`
    color,           \* _getColor: the value returned
    variant,         \* which NavLine class: "screen" (52-461) or "world" (517-844)
    originalPoints,  \* NavLine.originalPoints
    config,          \* the constructor's config argument, then NavLine.config
    status,          \* "new": not constructed, "live", "threw": the constructor threw
    mesh,            \* NavLine.mesh
    material,        \* NavLine.material
    accumulatedTime, \* NavLine._accumulatedTime
    resolution,      \* NavLine._resolution
    curvePoints,     \* the samples: `points` of _buildGeometry (NavLine._curvePoints)
    bodyVertexStart, \* NavLine._bodyVertexStart
    scene,           \* the meshes attached to the scene
    win,             \* <<window.innerWidth, window.innerHeight>>
    camera,          \* the caller's camera
    elapsed,         \* history: the sum of the time steps given to update
    lastCall,        \* history: the last call made on the instance
    projected,       \* history: the camera and window of the last projection
    discarded,       \* history: the meshes _buildGeometry has replaced
    cachedArrowTexture, \* the module's _cachedArrowTexture
    created,         \* history: how many CanvasTextures the module has made
    instances,       \* the module's NavLines, as far as the texture goes
    fragment         \* one fragment of the world-unit shader: uniforms and output

pathVars == <<points, radius, path, returned>>

colorVars == <<progress, trafficData, color>>

navVars == <<variant, originalPoints, config, status, mesh, material,
             accumulatedTime, resolution, curvePoints, bodyVertexStart, scene,
             win, camera, elapsed, lastCall, projected, discarded>>

cacheVars == <<cachedArrowTexture, created>>

vars == <<pathVars, colorVars, navVars, cacheVars, instances, fragment>>

\* null and undefined.
Null == [type |-> "null"]

Undefined == [type |-> "undefined"]

\* ------------------------------------------------------- THREE.Vector3
Abs(n) == IF n < 0 THEN -n ELSE n

Sgn(n) == IF n < 0 THEN -1 ELSE IF n > 0 THEN 1 ELSE 0

SubVectors(a, b) == <<a[1] - b[1], a[2] - b[2]>>

\* Vector3.normalize divides by (length || 1): the zero vector stays zero.
Normalize(v) == <<Sgn(v[1]), Sgn(v[2])>>

AddScaledVector(p, d, s) == <<p[1] + d[1] * s, p[2] + d[2] * s>>

\* Euclidean distance of two points that differ along one axis only.
DistanceTo(a, b) == Abs(a[1] - b[1]) + Abs(a[2] - b[2])

\* The i-th element (from 0, as in the source) of an array.
At(arr, i) == arr[i + 1]

\* ---------------------------------------------------- createRoundedPath
\* A bug the line could have: its two ends taken in the other order.
LineCurve3Reversed(v1, v2) == [type |-> "LineCurve3", v1 |-> v2, v2 |-> v1]

\* new THREE.LineCurve3(v1, v2): RoundedPath.js 16 and 60.
LineCurve3(v1, v2) == [type |-> "LineCurve3", v1 |-> v1, v2 |-> v2]

QuadraticBezierCurve3(v0, v1, v2) ==
    [type |-> "QuadraticBezierCurve3", v0 |-> v0, v1 |-> v1, v2 |-> v2]

\* A bug the clamp could have: the requested radius used as it is.
EffectiveRadiusUnclamped(dist, r) == r

\* RoundedPath.js 39-45 (and 75-76 for the next segment).
EffectiveRadius(dist, r) == IF dist < r * 2 THEN dist \div 2 ELSE r

\* A bug the trim could have: the first segment's start trimmed as well.
SegmentStartAlwaysTrimmed(pts, r, i) ==
    LET current == At(pts, i)
        next == At(pts, i + 1)
        effectiveRadius == EffectiveRadius(DistanceTo(current, next), r)
    IN  AddScaledVector(current, Normalize(SubVectors(next, current)),
                        effectiveRadius)

\* RoundedPath.js 26-57: the trimmed start of segment i.
SegmentStart(pts, r, i) ==
    LET current == At(pts, i)
        next == At(pts, i + 1)
        effectiveRadius == EffectiveRadius(DistanceTo(current, next), r)
    IN  IF i > 0
        THEN AddScaledVector(current, Normalize(SubVectors(next, current)),
                             effectiveRadius)
        ELSE current

\* RoundedPath.js 26-57: the trimmed end of segment i.
SegmentEnd(pts, r, i) ==
    LET current == At(pts, i)
        next == At(pts, i + 1)
        effectiveRadius == EffectiveRadius(DistanceTo(current, next), r)
    IN  IF i < Len(pts) - 2
        THEN AddScaledVector(next, Normalize(SubVectors(current, next)),
                             effectiveRadius)
        ELSE next

\* RoundedPath.js 63-98: the arc added after segment i (i < length - 2).
Corner(pts, r, i) ==
    LET current == At(pts, i)
        next == At(pts, i + 1)
        nextNext == At(pts, i + 2)
        effectiveRadius == EffectiveRadius(DistanceTo(current, next), r)
        nextDir == Normalize(SubVectors(nextNext, next))
        nextEffectiveRadius == EffectiveRadius(DistanceTo(next, nextNext), r)
        finalRadius == IF effectiveRadius < nextEffectiveRadius
                       THEN effectiveRadius ELSE nextEffectiveRadius
        cornerStart == SegmentEnd(pts, r, i)
        cornerEnd == AddScaledVector(next, nextDir, finalRadius)
    IN  QuadraticBezierCurve3(cornerStart, next, cornerEnd)

\* RoundedPath.js 25-100: what iteration i of the loop adds to the path.
LoopBody(pts, r, i) ==
    LET line == LineCurve3(SegmentStart(pts, r, i), SegmentEnd(pts, r, i))
    IN  IF i < Len(pts) - 2 THEN <<line, Corner(pts, r, i)>> ELSE <<line>>

RECURSIVE Loop(_, _, _, _)
\* RoundedPath.js 25: for (let i = 0; i < points.length - 1; i++).
Loop(pts, r, i, acc) ==
    IF i < Len(pts) - 1
    THEN Loop(pts, r, i + 1, acc \o LoopBody(pts, r, i))
    ELSE acc

\* RoundedPath.js 10-103.
createRoundedPath(pts, r) ==
    IF Len(pts) < 2 THEN <<>>
    ELSE IF Len(pts) = 2 THEN <<LineCurve3(At(pts, 0), At(pts, 1))>>
    ELSE Loop(pts, r, 0, <<>>)


\* ------------------------------------------------------------ _getColor
\* A number as <<numerator, denominator>>; a denominator of 0 is NaN (0 / 0),
\* which compares false with everything.
Geq(a, b) == a[2] > 0 /\ b[2] > 0 /\ a[1] * b[2] >= b[1] * a[2]

Leq(a, b) == Geq(b, a)

\* new THREE.Color(0x00ff00), NavLine.js 358 and 811.
DefaultColor == "0x00ff00"

\* A bug the test could have: the segment taken as the half-open [start, end).
SegmentMatchesHalfOpen(p, seg) == Geq(p, seg.start) /\ ~Geq(p, seg.end)

\* NavLine.js 360 and 813: progress >= seg.start && progress <= seg.end.
SegmentMatches(p, seg) == Geq(p, seg.start) /\ Leq(p, seg.end)

\* A JavaScript array as a value that may also be undefined or null.
Array(items) == [type |-> "Array", items |-> items]

RECURSIVE GetColorLoop(_, _, _)
\* NavLine.js 359-362 and 812-815: the for loop, then the last segment.
GetColorLoop(p, items, j) ==
    IF j > Len(items) THEN items[Len(items)].color
    ELSE IF SegmentMatches(p, items[j]) THEN items[j].color
    ELSE GetColorLoop(p, items, j + 1)

\* NavLine.js 357-363 and 810-816 (the two variants are the same text).
GetColor(p, td) ==
    IF td.type # "Array" THEN DefaultColor
    ELSE IF Len(td.items) = 0 THEN DefaultColor
    ELSE GetColorLoop(p, td.items, 1)

\* --------------------------------------------------------------- Sampler
\* THREE.CurvePath.getLength / getSpacedPoints, as called at NavLine.js
\* 231-234 and 694.  A quadratic arc is sampled along its control polygon
\* (v0, v1, v2), whose length bounds the arc's length from above; a straight
\* piece is sampled exactly.  The samples of a path sampled with `divisions`
\* steps are kept multiplied by `divisions`, which makes them integers.
CurveLength(curve) ==
    IF curve.type = "LineCurve3" THEN DistanceTo(curve.v1, curve.v2)
    ELSE DistanceTo(curve.v0, curve.v1) + DistanceTo(curve.v1, curve.v2)

RECURSIVE CurveLengths(_, _)
\* CurvePath.getCurveLengths: the cumulative lengths of the first k curves.
CurveLengths(curves, k) ==
    IF k = 0 THEN 0 ELSE CurveLengths(curves, k - 1) + CurveLength(curves[k])

\* CurvePath.getLength of a path that holds a curve.
GetLength(curves) == CurveLengths(curves, Len(curves))

\* The point `offset / divisions` along a curve from its start, times divisions.
PointOnCurve(curve, offset, divisions) ==
    IF curve.type = "LineCurve3"
    THEN AddScaledVector(<<curve.v1[1] * divisions, curve.v1[2] * divisions>>,
                         Normalize(SubVectors(curve.v2, curve.v1)), offset)
    ELSE LET first == DistanceTo(curve.v0, curve.v1) * divisions
         IN  IF offset <= first
             THEN AddScaledVector(
                      <<curve.v0[1] * divisions, curve.v0[2] * divisions>>,
                      Normalize(SubVectors(curve.v1, curve.v0)), offset)
             ELSE AddScaledVector(
                      <<curve.v1[1] * divisions, curve.v1[2] * divisions>>,
                      Normalize(SubVectors(curve.v2, curve.v1)), offset - first)

\* CurvePath.getPoint(i / divisions): the first curve whose cumulative length
\* reaches d = t * getLength() holds the point.
GetPoint(curves, i, divisions) ==
    LET d == i * GetLength(curves)
        k == CHOOSE c \in 1..Len(curves) :
                 /\ CurveLengths(curves, c) * divisions >= d
                 /\ \A b \in 1..(c - 1) : CurveLengths(curves, b) * divisions < d
        diff == CurveLengths(curves, k) * divisions - d
    IN  PointOnCurve(curves[k], CurveLength(curves[k]) * divisions - diff,
                     divisions)

\* What getPoint returns for t = 0 / 0: null.
NoPoint == <<>>

\* Math.max(200, ...), NavLine.js 233.
minSegments == 200

Max(a, b) == IF a > b THEN a ELSE b

\* NavLine.js 233 (screen): Math.max(200, Math.floor(totalLen * 5));
\* NavLine.js 694 (world): Math.floor(curve.getLength() * 2).
\* totalLen is in model units, Scale to the world unit.
Divisions(v, totalLen) ==
    IF v = "screen" THEN Max(minSegments, (totalLen * 5) \div Scale)
    ELSE (totalLen * 2) \div Scale

\* curve.getSpacedPoints(divisions), NavLine.js 234 and 694.  The length of an
\* empty CurvePath is undefined, so the step count is NaN and the loop
\* `i <= divisions` adds no point; with 0 steps it adds getPoint(0 / 0).
GetSpacedPoints(v, curves) ==
    IF Len(curves) = 0 THEN <<>>
    ELSE LET divisions == Divisions(v, GetLength(curves))
         IN  IF divisions = 0 THEN <<NoPoint>>
             ELSE [j \in 1..(divisions + 1) |->
                      GetPoint(curves, j - 1, divisions)]

\* ------------------------------------------------------- _buildGeometry
\* capSegments of addCap: NavLine.js 252 (screen), 715 (world).
capSegmentsScreen == 32

capSegmentsWorld == 16

CapSegments(v) == IF v = "screen" THEN capSegmentsScreen ELSE capSegmentsWorld

\* The vertices one addCap call adds: the centre and capSegments + 1 on the ring.
CapVertices(v) == CapSegments(v) + 2

\* addCap, NavLine.js 250-284 and 714-743: the triangles one call pushes to
\* indices, when vertexIndex is centerIdx at the call.  Iteration i > 0 pushes
\* (centerIdx, vertexIndex - 1, vertexIndex) with vertexIndex = centerIdx + 1 + i.
AddCapIndices(centerIdx, capSegments) ==
    [i \in 1..capSegments |-> <<centerIdx, centerIdx + i, centerIdx + 1 + i>>]

\* A bug the body could have: the second triangle of a quad taken from the
\* quad before.
BodyIndicesShifted(start, count) ==
    [t \in 1..(2 * (count - 1)) |->
        LET base == start + ((t - 1) \div 2) * 2
        IN  IF t % 2 = 1 THEN <<base, base + 1, base + 2>>
            ELSE <<base - 1, base + 1, base>>]

\* NavLine.js 329-333 and 782-787: the two triangles pushed for each sample
\* i < count - 1, base = start + i * 2 (start is the vertexIndex at the first
\* body vertex).
BodyIndices(start, count) ==
    [t \in 1..(2 * (count - 1)) |->
        LET base == start + ((t - 1) \div 2) * 2
        IN  IF t % 2 = 1 THEN <<base, base + 1, base + 2>>
            ELSE <<base + 1, base + 3, base + 2>>]

\* The items one addCap call pushes to an attribute array: the centre's and
\* one for each of the capSegments + 1 ring vertices.
CapItems(v, item) == [j \in 1..CapVertices(v) |-> item]

\* The items the body loop pushes to an attribute array: left and right of
\* every sample (NavLine.js 310-327 and 764-780).
BodyItems(items) == [j \in 1..(2 * Len(items)) |-> items[(j + 1) \div 2]]

RECURSIVE Dists(_, _)
\* NavLine.js 708-712: dists[i], the cumulative distance between the samples
\* (the sampled points are kept multiplied by the sampling steps, and so are
\* these); exact where consecutive samples lie on one axis-parallel piece.
Dists(pts, i) ==
    IF i = 0 THEN 0
    ELSE Dists(pts, i - 1) + DistanceTo(At(pts, i), At(pts, i - 1))

\* NavLine.js 222-355 and 685-808.  The constructor calls it with no mesh yet.
\* Reading points[1] and points[0] of fewer than 2 samples (288, 749) gives
\* undefined or null to Vector3.subVectors, which throws a TypeError.  Of the
\* attribute arrays, position, aIsCap and the distance (aScreenDist, or
\* aPathDist in the world-unit variant) are kept; aTangent, aOffset, uv and
\* aColor are pushed by the same statements.  index holds one triple for each
\* indices.push.
BuildGeometry(v, pts, cfg) ==
    LET curve == createRoundedPath(pts, cfg.cornerRadius)
        samples == GetSpacedPoints(v, curve)
        count == Len(samples)
        vertexCount == 2 * CapVertices(v) + 2 * count
        bodyStart == CapVertices(v)
        endCapStart == bodyStart + 2 * count
        dists == [i \in 1..count |-> Dists(samples, i - 1)]
    IN  [threw |-> count < 2,
         samples |-> samples,
         bodyVertexStart |-> IF v = "screen" /\ count >= 2
                             THEN bodyStart ELSE 0,
         mesh |-> IF count < 2 THEN Null
                  ELSE [type |-> "Mesh",
                        id |-> 1,
                        count |-> count,
                        vertexCount |-> vertexCount,
                        position |-> CapItems(v, samples[1])
                                       \o BodyItems(samples)
                                       \o CapItems(v, samples[count]),
                        aIsCap |-> CapItems(v, 1)
                                     \o BodyItems([i \in 1..count |-> 0])
                                     \o CapItems(v, 1),
                        aPathDist |-> IF v = "screen" THEN <<>>
                                      ELSE CapItems(v, dists[1])
                                             \o BodyItems(dists)
                                             \o CapItems(v, dists[count]),
                        index |-> AddCapIndices(0, CapSegments(v))
                                    \o BodyIndices(bodyStart, count)
                                    \o AddCapIndices(endCapStart,
                                                     CapSegments(v)),
                        geometryDisposed |-> FALSE,
                        aScreenDist |-> IF v = "screen"
                                        THEN [j \in 1..vertexCount |-> 0]
                                        ELSE <<>>]]

\* Object.assign(defaults, config): NavLine.js 58-65 and 522-529.  Lengths are
\* in model units (cornerRadius 15 world units).
Defaults(v) ==
    IF v = "screen"
    THEN [width |-> 20, arrowSpacing |-> 60, speed |-> 2,
          cornerRadius |-> 15 * Scale]
    ELSE [width |-> 20, arrowSpacing |-> 10, speed |-> 5,
          cornerRadius |-> 15 * Scale]

ObjectAssign(defaults, cfg) ==
    [k \in DOMAIN defaults |-> IF k \in DOMAIN cfg THEN cfg[k] ELSE defaults[k]]

\* A bug the cache could have: one texture for each anisotropy level.
GetArrowTexturePerAnisotropy(cached, n, anisotropy) ==
    IF cached # Null /\ cached.anisotropy = anisotropy
    THEN [texture |-> cached, created |-> n]
    ELSE [texture |-> [type |-> "CanvasTexture", id |-> n + 1,
                       anisotropy |-> anisotropy, disposed |-> FALSE],
          created |-> n + 1]

\* getArrowTexture(anisotropy), NavLine.js 7-46 and 469-515, with the cache
\* and the number of textures made so far: the texture returned (which the
\* cache then holds) and the number made after the call.
GetArrowTexture(cached, n, anisotropy) ==
    IF cached # Null
    THEN [texture |-> cached, created |-> n]
    ELSE [texture |-> [type |-> "CanvasTexture", id |-> n + 1,
                       anisotropy |-> anisotropy, disposed |-> FALSE],
          created |-> n + 1]

\* this.scene.renderer ? ...getMaxAnisotropy() : 16, NavLine.js 86-88.
defaultAnisotropy == 16

\* uLodBias: { value: 1.0 }, NavLine.js 556, in tenths.
defaultLodBias == 10

\* new THREE.ShaderMaterial: NavLine.js 91-98 and 549-557.  uTexture holds the
\* texture by reference (its id).
ShaderMaterial(v, cfg, res, texture) ==
    IF v = "screen"
    THEN [type |-> "ShaderMaterial",
          uTexture |-> texture.id,
          uWidth |-> cfg.width,
          uSpacing |-> cfg.arrowSpacing,
          uOffset |-> 0,
          uResolution |-> res,
          disposed |-> FALSE]
    ELSE [type |-> "ShaderMaterial",
          uTexture |-> texture.id,
          uWidth |-> cfg.width,
          uSpacing |-> cfg.arrowSpacing,
          uOffset |-> 0,
          uResolution |-> res,
          uLodBias |-> defaultLodBias,
          disposed |-> FALSE]

\* ------------------------------------------------ _updateScreenDistances
\* The camera of the model: at `position` (model units), looking along
\* `direction` (an axis or a diagonal, |direction|^2 = 1 or 2) in the plane of
\* the path, orthographic with a half extent of 1 / |direction| world units.
\* For a sample p and rel = p - position (both times the sampling steps):
\*   view z = -(rel . direction) / |direction|
\*   NDC x  = rel . perp(direction)          NDC y = 0
\* in units of 1 / K world units, K = Scale * steps.
Dot(a, b) == a[1] * b[1] + a[2] * b[2]

Perp(d) == <<d[2], -d[1]>>

Rel(cam, p, steps) ==
    SubVectors(p, <<cam.position[1] * steps, cam.position[2] * steps>>)

\* NavLine.js 414: isBehind = vec.z > -0.1, that is depth < 0.1 world units,
\* where depth * |direction| = rel . direction =: depthN, in 1 / K world units:
\* depthN <= 0, or (10 * depthN)^2 < |direction|^2 * K^2.
IsBehind(cam, p, steps) ==
    LET depthN == Dot(Rel(cam, p, steps), cam.direction)
        normSq == Dot(cam.direction, cam.direction)
        K == Scale * steps
    IN  IF depthN <= 0 THEN TRUE
        ELSE IF 10 * depthN >= normSq * K THEN FALSE
        ELSE (10 * depthN) * (10 * depthN) < normSq * K * K

\* NavLine.js 417-421: screenX = vec.x * halfW + halfW, screenY likewise, in
\* units of 1 / K pixel.
ScreenPos(cam, p, steps, w) ==
    LET K == Scale * steps
        halfW == w[1] \div 2
        halfH == w[2] \div 2
    IN  <<Dot(Rel(cam, p, steps), Perp(cam.direction)) * halfW + halfW * K,
          halfH * K>>

\* A bug the distance could have: the signed horizontal delta.
PixelDistSigned(dx, dy) == dx

\* NavLine.js 429: Math.sqrt(dx*dx + dy*dy), exact where dx or dy is 0.
PixelDist(dx, dy) == Abs(dx) + Abs(dy)

\* A bug the guard could have: the previous sample's side not looked at.
AccumulatesIgnoringPrev(isBehind, prevValid) == ~isBehind

\* NavLine.js 426: if (!isBehind && prevValid).
Accumulates(isBehind, prevValid) == ~isBehind /\ prevValid

\* NavLine.js 408-438: iteration i of the loop, from the loop state st
\* (accumulatedDist, prevScreenPos, prevValid) to the loop state after it.
LoopStep(cam, pts, w, i, st) ==
    LET steps == Len(pts) - 1
        isBehind == IsBehind(cam, At(pts, i), steps)
        pos == ScreenPos(cam, At(pts, i), steps, w)
        dx == pos[1] - st.prevScreenPos[1]
        dy == pos[2] - st.prevScreenPos[2]
    IN  [accumulatedDist |->
             IF i > 0 /\ Accumulates(isBehind, st.prevValid)
             THEN st.accumulatedDist + PixelDist(dx, dy)
             ELSE st.accumulatedDist,
         prevScreenPos |-> pos,
         prevValid |-> ~isBehind]

RECURSIVE RunLoop(_, _, _, _, _, _)
\* NavLine.js 407: iterations lo..hi of the loop, run in order from the loop
\* state st: the loop state after them and the value of accumulatedDist after
\* each.  (The run is split in halves, the first half evaluated before the
\* second is begun, only to keep the evaluation shallow.)
RunLoop(cam, pts, w, lo, hi, st) ==
    IF lo > hi THEN [st |-> st, out |-> <<>>]
    ELSE IF lo = hi
    THEN LET next == LoopStep(cam, pts, w, lo, st)
         IN  [st |-> next, out |-> <<next.accumulatedDist>>]
    ELSE LET mid == (lo + hi) \div 2
             left == RunLoop(cam, pts, w, lo, mid, st)
         IN  IF left.st.prevValid \in BOOLEAN
             THEN LET right == RunLoop(cam, pts, w, mid + 1, hi, left.st)
                  IN  [st |-> right.st, out |-> left.out \o right.out]
             ELSE left

\* A bug the write could have: only the first vertex of the sample written.
EntriesFirstOnly(idx) == {idx}

\* NavLine.js 442-443: the entries iteration i writes, array[idx] and
\* array[idx + 1].
Entries(idx) == {idx, idx + 1}

\* NavLine.js 389-447: the new contents of the aScreenDist attribute.
\* Iteration i writes accumulatedDist to array[idx] and array[idx + 1],
\* idx = _bodyVertexStart + i * 2 (441-443); entries are numbered from 1 here.
UpdateScreenDistances(cam, pts, w, start, array) ==
    LET run == RunLoop(cam, pts, w, 0, Len(pts) - 1,
                   [accumulatedDist |-> 0, prevScreenPos |-> <<0, 0>>,
                    prevValid |-> FALSE])
    IN  [j \in 1..Len(array) |->
            LET i == (j - 1 - start) \div 2
            IN  IF  /\ j - 1 >= start
                    /\ i < Len(pts)
                    /\ j - 1 \in Entries(start + i * 2)
                THEN run.out[i + 1]
                ELSE array[j]]

\* ---------------------------------------------------------------- update
\* const pxSpeed = 100.0, NavLine.js 375.
pxSpeed == 100

\* A bug the offset could have: one fixed step per call, deltaTime ignored.
AdvanceOffsetPerCall(v, acc, deltaTime, cfg) ==
    acc + (IF v = "screen" THEN pxSpeed ELSE cfg.speed)

\* NavLine.js 376 (screen): this._accumulatedTime += deltaTime * pxSpeed;
\* NavLine.js 821 (world): this._accumulatedTime += deltaTime * this.config.speed.
AdvanceOffset(v, acc, deltaTime, cfg) ==
    IF v = "screen" THEN acc + deltaTime * pxSpeed
    ELSE acc + deltaTime * cfg.speed

\* A bug update could have: the mesh made anew for the new distances.
WriteScreenDistToNewMesh(m, array) ==
    [m EXCEPT !.aScreenDist = array, !.id = m.id + 1]

\* NavLine.js 399-400 and 441-446: the attribute's array is written in place
\* and needsUpdate set; the mesh and its other buffers stay.
WriteScreenDist(m, array) == [m EXCEPT !.aScreenDist = array]

\* NavLine.js 370-387 and 818-826: update(deltaTime, cam), cam = Undefined when
\* no camera is passed (the world-unit variant takes none); w is the window
\* size the call reads.
Update(deltaTime, cam, w) ==
    IF mesh = Null \/ material = Null
    THEN UNCHANGED <<accumulatedTime, material, resolution, mesh, projected>>
    ELSE LET offset == AdvanceOffset(variant, accumulatedTime, deltaTime, config)
         IN  /\ accumulatedTime' = offset
             /\ resolution' = w
             /\ material' = [material EXCEPT !.uOffset = offset,
                                             !.uResolution = w]
             /\ IF variant = "screen" /\ cam # Undefined
                THEN /\ mesh' = WriteScreenDist(mesh,
                                    UpdateScreenDistances(cam, curvePoints, w,
                                        bodyVertexStart, mesh.aScreenDist))
                     /\ projected' = [camera |-> cam, win |-> w]
                ELSE UNCHANGED <<mesh, projected>>
\* --------------------------------------------------------------- inputs
\* The four axis directions.
Axes == {<<1, 0>>, <<-1, 0>>, <<0, 1>>, <<0, -1>>}

\* The control points that may follow p: p itself (a duplicate point) or a
\* point 2, 4, ... units away along an axis.
Successors(p, maxSeg) ==
    {AddScaledVector(p, d, 2 * k) : d \in Axes, k \in 0..maxSeg}

RECURSIVE PolylinesOfLen(_, _)
PolylinesOfLen(n, maxSeg) ==
    IF n = 0 THEN {<<>>}
    ELSE IF n = 1 THEN {<< <<0, 0>> >>}
    ELSE UNION {{Append(p, q) : q \in Successors(p[Len(p)], maxSeg)} :
                p \in PolylinesOfLen(n - 1, maxSeg)}

\* The polylines of at most maxPoints control points.
Polylines(maxPoints) ==
    UNION {PolylinesOfLen(n, MaxSeg) : n \in 0..maxPoints}


\* The segment lists given to _getColor: the j-th segment has the j-th colour
\* (index.tsx 159-163) and any limits, in either order, not required to cover
\* [0, 1].
SegmentColors == <<"0xff0000", "0xffcc00", "0x00ff00">>

Fractions == {<<k, ProgressDen>> : k \in 0..ProgressDen}

RECURSIVE TrafficListsOfLen(_)
TrafficListsOfLen(n) ==
    IF n = 0 THEN {<<>>}
    ELSE {Append(td, [start |-> a, end |-> b,
                      color |-> SegmentColors[((n - 1) % 3) + 1]]) :
             td \in TrafficListsOfLen(n - 1), a \in Fractions, b \in Fractions}

\* The segment lists of at most maxTraffic segments.
TrafficLists(maxTraffic) ==
    UNION {TrafficListsOfLen(n) : n \in 0..maxTraffic}

\* The polylines given to NavLine, in model units (8 to the world unit): none,
\* one point, a duplicated point, 0.25 and 2 world units of straight line, and
\* a corner.
NavPolylines ==
    {<<>>,
     << <<0, 0>> >>,
     << <<0, 0>>, <<0, 0>> >>,
     << <<0, 0>>, <<2, 0>> >>,
     << <<0, 0>>, <<16, 0>> >>,
     << <<0, 0>>, <<4, 0>>, <<4, 8>> >>}

\* The config arguments: none (the defaults), and a speed and a corner radius.
NavConfigs == {<<>>, [speed |-> 3, cornerRadius |-> 2]}

\* The camera poses: one that sees every sample of a path along the x axis,
\* one that has the path's start behind it, one that has its end behind it.
Cameras ==
    {[position |-> <<2, -4>>, direction |-> <<0, 1>>],
     [position |-> <<2, 2>>, direction |-> <<1, 1>>],
     [position |-> <<8, 0>>, direction |-> <<-1, -1>>]}

InitialCamera == [position |-> <<2, -4>>, direction |-> <<0, 1>>]

Windows == {<<8, 4>>, <<4, 2>>}

\* The time steps: none (as on a resize) and one tick.
DeltaTimes == {0, 1}

InitialWindow == <<8, 4>>

\* ----------------------------------------------- idle parts of the state
PathIdle == points = <<>> /\ radius = 0 /\ path = <<>> /\ returned = FALSE

ColorIdle == progress = <<0, 1>> /\ trafficData = Undefined /\ color = "none"

NavIdle ==
    /\ variant = "screen"
    /\ originalPoints = <<>>
    /\ config = <<>>
    /\ status = "idle"
    /\ mesh = Null
    /\ material = Null
    /\ accumulatedTime = 0
    /\ resolution = <<0, 0>>
    /\ curvePoints = <<>>
    /\ bodyVertexStart = 0
    /\ scene = {}
    /\ win = InitialWindow
    /\ camera = InitialCamera
    /\ elapsed = 0
    /\ lastCall = [op |-> "none"]
    /\ projected = Undefined
    /\ discarded = {}

CacheIdle == cachedArrowTexture = Null /\ created = 0

InstancesIdle == instances = <<>>

FragmentIdle == fragment = Null
\* ------------------------------------------- createRoundedPath as a call
InitPath ==
    /\ points \in Polylines(MaxPoints)
    /\ radius \in 0..MaxRadius
    /\ path = <<>>
    /\ returned = FALSE
    /\ ColorIdle
    /\ NavIdle
    /\ CacheIdle
    /\ InstancesIdle
    /\ FragmentIdle

\* points.length < 2: the empty path is returned (RoundedPath.js 14).
ReturnEmpty ==
    /\ ~returned
    /\ Len(points) < 2
    /\ path' = createRoundedPath(points, radius)
    /\ returned' = TRUE
    /\ UNCHANGED <<points, radius, colorVars, navVars, cacheVars, instances,
                   fragment>>

\* points.length = 2: one straight segment (RoundedPath.js 15-18).
ReturnLine ==
    /\ ~returned
    /\ Len(points) = 2
    /\ path' = createRoundedPath(points, radius)
    /\ returned' = TRUE
    /\ UNCHANGED <<points, radius, colorVars, navVars, cacheVars, instances,
                   fragment>>

\* points.length >= 3: the loop (RoundedPath.js 25-102).
ReturnRounded ==
    /\ ~returned
    /\ Len(points) >= 3
    /\ path' = createRoundedPath(points, radius)
    /\ returned' = TRUE
    /\ UNCHANGED <<points, radius, colorVars, navVars, cacheVars, instances,
                   fragment>>

NextPath == ReturnEmpty \/ ReturnLine \/ ReturnRounded

SpecPath == InitPath /\ [][NextPath]_vars

\* --------------------------------------------------- _getColor as a call
InitColor ==
    /\ progress \in {<<k, ProgressDen>> : k \in -1..(ProgressDen + 1)}
    /\ trafficData \in {Array(items) : items \in TrafficLists(MaxTraffic)}
                       \cup {Undefined, Null}
    /\ color = "none"
    /\ PathIdle
    /\ NavIdle
    /\ CacheIdle
    /\ InstancesIdle
    /\ FragmentIdle

GetColorCall ==
    /\ color = "none"
    /\ color' = GetColor(progress, trafficData)
    /\ UNCHANGED <<progress, trafficData, pathVars, navVars, cacheVars,
                   instances, fragment>>

NextColor == GetColorCall

SpecColor == InitColor /\ [][NextColor]_vars

\* ------------------------------------------------------------- NavLine
Init ==
    /\ variant \in {"screen", "world"}
    /\ originalPoints \in NavPolylines
    /\ config \in NavConfigs
    /\ status = "new"
    /\ mesh = Null
    /\ material = Null
    /\ accumulatedTime = 0
    /\ resolution = <<0, 0>>
    /\ curvePoints = <<>>
    /\ bodyVertexStart = 0
    /\ scene = {}
    /\ win = InitialWindow
    /\ camera = InitialCamera
    /\ elapsed = 0
    /\ lastCall = [op |-> "none"]
    /\ projected = Undefined
    /\ discarded = {}
    /\ PathIdle
    /\ ColorIdle
    /\ CacheIdle
    /\ InstancesIdle
    /\ FragmentIdle

\* new NavLine(scene, points, config): NavLine.js 53-83 and 518-541, _init
\* (85-220, 543-683) and the first _buildGeometry.  When _buildGeometry throws,
\* the material exists and, in the screen-space variant, _curvePoints is set.
Construct ==
    /\ status = "new"
    /\ LET cfg == ObjectAssign(Defaults(variant), config)
           built == BuildGeometry(variant, originalPoints, cfg)
           got == GetArrowTexture(cachedArrowTexture, created,
                                  defaultAnisotropy)
       IN  /\ config' = cfg
           /\ resolution' = win
           /\ cachedArrowTexture' = got.texture
           /\ created' = got.created
           /\ material' = ShaderMaterial(variant, cfg, win, got.texture)
           /\ curvePoints' = built.samples
           /\ bodyVertexStart' = built.bodyVertexStart
           /\ mesh' = built.mesh
           /\ scene' = IF built.threw THEN {} ELSE {built.mesh.id}
           /\ status' = IF built.threw THEN "threw" ELSE "live"
    /\ accumulatedTime' = 0
    /\ lastCall' = [op |-> "new"]
    /\ UNCHANGED <<variant, originalPoints, win, camera, elapsed, projected,
                   discarded, pathVars, colorVars, instances, fragment>>

\* The call made now, with how often it has been made in a row (1 or 2).
Call(op, deltaTime, withCamera) ==
    LET this == [op |-> op, deltaTime |-> deltaTime, withCamera |-> withCamera]
    IN  [op |-> op, deltaTime |-> deltaTime, withCamera |-> withCamera,
         repeat |-> IF  /\ lastCall.op = op
                        /\ [op |-> lastCall.op, deltaTime |-> lastCall.deltaTime,
                            withCamera |-> lastCall.withCamera] = this
                    THEN 2 ELSE 1]

\* navLine.update(deltaTime) or navLine.update(deltaTime, camera) called with
\* the camera and the window as they are.
UpdateCall(deltaTime, withCamera) ==
    /\ status = "live"
    /\ elapsed + deltaTime <= MaxElapsed
    /\ withCamera => variant = "screen"
    /\ Update(deltaTime, IF withCamera THEN camera ELSE Undefined, win)
    /\ elapsed' = elapsed + deltaTime
    /\ lastCall' = Call("update", deltaTime, withCamera)
    /\ UNCHANGED <<variant, originalPoints, config, status, curvePoints,
                   bodyVertexStart, scene, win, camera, discarded, pathVars,
                   colorVars, cacheVars, instances, fragment>>

\* animate(): part_000 79-90, index.tsx 86-95 and 203-213.  controls.update()
\* may move the camera; then update(delta, camera), or update(delta) in the
\* world-unit variant.
Animate(deltaTime, newCamera) ==
    /\ status = "live"
    /\ deltaTime > 0
    /\ elapsed + deltaTime <= MaxElapsed
    /\ camera' = newCamera
    /\ Update(deltaTime,
              IF variant = "screen" THEN newCamera ELSE Undefined, win)
    /\ elapsed' = elapsed + deltaTime
    /\ lastCall' = Call("animate", deltaTime, variant = "screen")
    /\ UNCHANGED <<variant, originalPoints, config, status, curvePoints,
                   bodyVertexStart, scene, win, discarded, pathVars,
                   colorVars, cacheVars, instances, fragment>>

\* The resize listener: part_000 93-98, index.tsx 98-105 and 216-221.
Resize(w) ==
    /\ status = "live"
    /\ w # win
    /\ win' = w
    /\ Update(0, IF variant = "screen" THEN camera ELSE Undefined, w)
    /\ lastCall' = Call("resize", 0, variant = "screen")
    /\ UNCHANGED <<variant, originalPoints, config, status, curvePoints,
                   bodyVertexStart, scene, camera, elapsed, discarded,
                   pathVars, colorVars, cacheVars, instances, fragment>>

Next ==
    \/ Construct
    \/ \E deltaTime \in DeltaTimes, withCamera \in BOOLEAN :
           UpdateCall(deltaTime, withCamera)
    \/ \E deltaTime \in DeltaTimes, newCamera \in Cameras :
           Animate(deltaTime, newCamera)
    \/ \E w \in Windows : Resize(w)

Spec == Init /\ [][Next]_vars
\* ------------------------------------------ NavLine: the other methods
\* A bug a setter could have: the animation restarted with the new spacing.
WithSpacingResettingOffset(mat, value) ==
    [mat EXCEPT !.uSpacing = value, !.uOffset = 0]

\* this.material.uniforms.uSpacing.value = px, NavLine.js 451 and 834.
WithSpacing(mat, value) == [mat EXCEPT !.uSpacing = value]

\* this.material.uniforms.uLodBias.value = value, NavLine.js 829.
WithLodBias(mat, value) == [mat EXCEPT !.uLodBias = value]

\* A bug dispose could have: the mesh left in the scene.
RemoveNothing(sc, m) == sc

\* this.scene.remove(this.mesh), NavLine.js 456 and 839.
Remove(sc, m) == sc \ {m.id}

\* The values given to setArrowSpacing (0 and 30) and, in tenths, to
\* setLodBias (3.0); the corner radius a caller assigns, in model units.
Spacings == {0, 30}

LodBiases == {30}

Radii == {2}

\* setArrowSpacing(px): NavLine.js 449-452 and 832-835.  (The world-unit
\* variant tests this.material first; a built NavLine has one.)
SetArrowSpacing(value) ==
    /\ status = "live"
    /\ config' = [config EXCEPT !.arrowSpacing = value]
    /\ material' = WithSpacing(material, value)
    /\ lastCall' = [op |-> "setArrowSpacing", value |-> value]
    /\ UNCHANGED <<variant, originalPoints, status, mesh, accumulatedTime,
                   resolution, curvePoints, bodyVertexStart, scene, win,
                   camera, elapsed, projected, discarded, pathVars, colorVars,
                   cacheVars, instances, fragment>>

\* setLodBias(value): NavLine.js 828-830, world-unit variant only.
SetLodBias(value) ==
    /\ status = "live"
    /\ variant = "world"
    /\ material' = IF material # Null THEN WithLodBias(material, value)
                   ELSE material
    /\ lastCall' = [op |-> "setLodBias", value |-> value]
    /\ UNCHANGED <<variant, originalPoints, config, status, mesh,
                   accumulatedTime, resolution, curvePoints, bodyVertexStart,
                   scene, win, camera, elapsed, projected, discarded,
                   pathVars, colorVars, cacheVars, instances, fragment>>

\* dispose(): NavLine.js 454-460 and 837-843, also of an instance whose
\* _buildGeometry threw and left this.mesh null.  geometry.dispose() and
\* material.dispose() release the GPU buffers and the program; the fields
\* keep their objects.
Dispose ==
    /\ status \in {"live", "threw"}
    /\ IF mesh # Null
       THEN /\ scene' = Remove(scene, mesh)
            /\ mesh' = [mesh EXCEPT !.geometryDisposed = TRUE]
       ELSE UNCHANGED <<scene, mesh>>
    /\ material' = IF material # Null
                   THEN [material EXCEPT !.disposed = TRUE]
                   ELSE material
    /\ lastCall' = [op |-> "dispose",
                    repeat |-> IF lastCall.op = "dispose" THEN 2 ELSE 1]
    /\ UNCHANGED <<variant, originalPoints, config, status, accumulatedTime,
                   resolution, curvePoints, bodyVertexStart, win, camera,
                   elapsed, projected, discarded, pathVars, colorVars,
                   cacheVars, instances, fragment>>

\* navLine.config.cornerRadius = r, written by the caller: the class has no
\* method that changes the polyline, the corner radius or the traffic
\* segments, and _buildGeometry is called by _init only (NavLine.js 219, 682);
\* config is the plain object made at 58-65 and 522-529.
AssignCornerRadius(r) ==
    /\ status = "live"
    /\ config' = [config EXCEPT !.cornerRadius = r]
    /\ lastCall' = [op |-> "assign", value |-> r]
    /\ UNCHANGED <<variant, originalPoints, status, mesh, material,
                   accumulatedTime, resolution, curvePoints, bodyVertexStart,
                   scene, win, camera, elapsed, projected, discarded,
                   pathVars, colorVars, cacheVars, instances, fragment>>

\* A bug the rebuild could have: the previous mesh left in the scene.
DiscardPreviousNever(sc, m) == sc

\* if (this.mesh) { this.scene.remove(this.mesh); ... }: NavLine.js 223-226
\* and 686-689, the scene after it.
DiscardPrevious(sc, m) == IF m # Null THEN Remove(sc, m) ELSE sc

\* this.scene.add(this.mesh), NavLine.js 354 and 807.
Add(sc, m) == sc \cup {m.id}

\* navLine._buildGeometry() called again on a built NavLine: NavLine.js
\* 222-355 and 685-808.  The previous mesh leaves the scene and its geometry
\* is disposed of (223-226); a new Mesh, another object than the previous one,
\* becomes this.mesh and is added to the scene (352-354).  When the method
\* throws, this.mesh stays the previous mesh, out of the scene.
Rebuild ==
    /\ status = "live"
    /\ mesh.id < MaxBuilds
    /\ LET built == BuildGeometry(variant, originalPoints, config)
           cleared == DiscardPrevious(scene, mesh)
           previous == [mesh EXCEPT !.geometryDisposed = TRUE]
           new == [built.mesh EXCEPT !.id = mesh.id + 1]
       IN  /\ curvePoints' = built.samples
           /\ bodyVertexStart' =
                  IF built.threw THEN bodyVertexStart ELSE built.bodyVertexStart
           /\ mesh' = IF built.threw THEN previous ELSE new
           /\ scene' = IF built.threw THEN cleared ELSE Add(cleared, new)
           /\ discarded' =
                  IF built.threw THEN discarded
                  ELSE discarded
                         \cup {[id |-> previous.id,
                                geometryDisposed |-> previous.geometryDisposed]}
           /\ status' = IF built.threw THEN "threw" ELSE "live"
    /\ lastCall' = [op |-> "rebuild"]
    /\ UNCHANGED <<variant, originalPoints, config, material, accumulatedTime,
                   resolution, win, camera, elapsed, projected, pathVars,
                   colorVars, cacheVars, instances, fragment>>

NextRebuild ==
    \/ Construct
    \/ Rebuild
    \/ Dispose
    \/ \E r \in Radii : AssignCornerRadius(r)

SpecRebuild == Init /\ [][NextRebuild]_vars

NextApi ==
    \/ Construct
    \/ \E deltaTime \in DeltaTimes, withCamera \in BOOLEAN :
           UpdateCall(deltaTime, withCamera)
    \/ \E value \in Spacings : SetArrowSpacing(value)
    \/ \E value \in LodBiases : SetLodBias(value)
    \/ Dispose
    \/ \E r \in Radii : AssignCornerRadius(r)

SpecApi == Init /\ [][NextApi]_vars

\* ------------------------------------------------- the fragment shaders
\* max(mpp, 0.0001), NavLine.js 630; derivatives are in units of 0.0001.
mppEpsilon == 1

\* The values fwidth(vPathDist) may have, in units of 0.0001.
Derivatives == {0, 1, 50}

\* The divisors and moduli of the arrow tiling and the LOD computation:
\* NavLine.js 185-194 (screen): mod(currentDist, uSpacing) and
\* (distInCycle - halfGap) / arrowSize, arrowSize = uWidth; NavLine.js 628-653
\* (world): mpp = max(mpp, 0.0001), currentDist / uSpacing, distMeters / mpp,
\* distPixels / uWidth and uSpacing / mpp.
Divisors(v, uWidth, uSpacing, fwidth) ==
    IF v = "screen"
    THEN <<[at |-> "mod(currentDist, uSpacing)", by |-> uSpacing],
           [at |-> "(distInCycle - halfGap) / arrowSize", by |-> uWidth]>>
    ELSE LET mpp == Max(fwidth, mppEpsilon)
         IN  <<[at |-> "currentDist / uSpacing", by |-> uSpacing],
               [at |-> "distMeters / mpp", by |-> mpp],
               [at |-> "distPixels / uWidth", by |-> uWidth],
               [at |-> "uSpacing / mpp", by |-> mpp]>>

\* ---------------------------- the LOD fade of the world-unit shader
\* float mpp = fwidth(vPathDist); mpp = max(mpp, 0.0001): NavLine.js 628-630,
\* in units of 0.0001 world unit per pixel.
Mpp(fwidth) == Max(fwidth, mppEpsilon)

\* float spacingPixels = uSpacing / mpp: NavLine.js 652.  uSpacing is in world
\* units, the quotient in 1 / PixelSteps pixel.
SpacingPixels(uSpacing, fwidth) ==
    (uSpacing * 10000 * PixelSteps) \div Mpp(fwidth)

\* float minSpacing = uWidth * 1.2 * uLodBias: NavLine.js 659.  uWidth is in
\* pixels, uLodBias in tenths, the product in 1 / PixelSteps pixel.
MinSpacing(uWidth, uLodBias) == (uWidth * 12 * uLodBias * PixelSteps) \div 100

\* float maxSpacing = uWidth * 2.5 * uLodBias: NavLine.js 660.
MaxSpacing(uWidth, uLodBias) == (uWidth * 25 * uLodBias * PixelSteps) \div 100

Clamp(x, lo, hi) == IF x < lo THEN lo ELSE IF x > hi THEN hi ELSE x

\* A bug the fade could have: the edges taken the other way round, so that
\* glyphs fade out as they get further apart.
SmoothstepFallingEdge(edge0, edge1, x) ==
    LET t == (Clamp(edge1 - x, 0, edge1 - edge0) * FadeSteps)
                 \div (edge1 - edge0)
    IN  t * t * (3 * FadeSteps - 2 * t)

\* GLSL smoothstep(edge0, edge1, x), NavLine.js 662:
\* t = clamp((x - edge0) / (edge1 - edge0), 0.0, 1.0); t * t * (3.0 - 2.0 * t).
\* The difference is clamped before the division, which gives the same t.
\* GLSL leaves the result undefined when edge0 >= edge1; the uniforms given
\* to the fragment below have uWidth > 0 and uLodBias > 0.
Smoothstep(edge0, edge1, x) ==
    LET t == (Clamp(x - edge0, 0, edge1 - edge0) * FadeSteps)
                 \div (edge1 - edge0)
    IN  t * t * (3 * FadeSteps - 2 * t)

\* float lodFade = smoothstep(minSpacing, maxSpacing, spacingPixels):
\* NavLine.js 652-662.
LodFade(uWidth, uSpacing, uLodBias, fwidth) ==
    Smoothstep(MinSpacing(uWidth, uLodBias), MaxSpacing(uWidth, uLodBias),
               SpacingPixels(uSpacing, fwidth))

\* lodFade > 0.01, NavLine.js 665.
AboveGate(lodFade) == lodFade > (FadeSteps * FadeSteps * FadeSteps) \div 100

\* NavLine.js 623 and 665-669: float arrowAlpha = 0.0; if (... lodFade > 0.01)
\* { arrowAlpha = texA * lodFade; }: what multiplies the glyph's texel, at a
\* fragment inside the glyph (texX in [0, 1]).
ArrowFactor(uWidth, uSpacing, uLodBias, fwidth) ==
    LET lodFade == LodFade(uWidth, uSpacing, uLodBias, fwidth)
    IN  IF AboveGate(lodFade) THEN lodFade ELSE 0

\* The uniforms and the derivative a fragment is drawn with: the line width
\* in pixels, the glyph spacing in world units (the demo's slider gives 5 to
\* 30, setArrowSpacing takes 0 as well), the LOD bias in tenths (the slider
\* gives 0.1 to 3.0) and fwidth(vPathDist) in units of 0.0001.
FragmentWidths == {10, 20}

FragmentSpacings == {0, 5, 10, 30}

FragmentLodBiases == {1, 10, 30}

FragmentDerivatives == {0, 1, 1000, 2000, 3000, 5000}

InitShader ==
    /\ fragment \in [uWidth : FragmentWidths, uSpacing : FragmentSpacings,
                     uLodBias : FragmentLodBiases,
                     fwidth : FragmentDerivatives,
                     drawn : {FALSE}, arrowFactor : {0}, frames : {0},
                     before : {Undefined}]
    /\ PathIdle
    /\ ColorIdle
    /\ NavIdle
    /\ CacheIdle
    /\ InstancesIdle

\* One frame: main() of the fragment shader, NavLine.js 626-669, as far as
\* the LOD fade goes.
Shade ==
    /\ fragment # Null
    /\ ~fragment.drawn
    /\ fragment' = [fragment EXCEPT
                       !.drawn = TRUE,
                       !.arrowFactor = ArrowFactor(fragment.uWidth,
                                                   fragment.uSpacing,
                                                   fragment.uLodBias,
                                                   fragment.fwidth),
                       !.frames = @ + 1]
    /\ UNCHANGED <<pathVars, colorVars, navVars, cacheVars, instances>>

\* setLodBias(value) between two frames: NavLine.js 828-830.  `before` keeps
\* the bias and the factor of the frame drawn before the call; arrowFactor
\* stays that frame's until the next frame is drawn.
SetLodBiasUniform(value) ==
    /\ fragment # Null
    /\ fragment.drawn
    /\ fragment.frames < MaxFrames
    /\ fragment' = [WithLodBias(fragment, value) EXCEPT
                       !.drawn = FALSE,
                       !.before = [uLodBias |-> fragment.uLodBias,
                                   arrowFactor |-> fragment.arrowFactor]]
    /\ UNCHANGED <<pathVars, colorVars, navVars, cacheVars, instances>>

NextShader ==
    \/ Shade
    \/ \E value \in FragmentLodBiases : SetLodBiasUniform(value)

SpecShader == InitShader /\ [][NextShader]_vars

\* ------------------------------------- the texture cache of one module
\* What getMaxAnisotropy() of a scene's renderer may give.
Anisotropies == {1, 4, 16}

InitCache ==
    /\ cachedArrowTexture = Null
    /\ created = 0
    /\ instances = <<>>
    /\ PathIdle
    /\ ColorIdle
    /\ NavIdle
    /\ FragmentIdle

\* new NavLine(scene, ...), as far as the texture goes: _init takes the
\* texture from getArrowTexture(maxAnisotropy) and puts it in the material's
\* uTexture uniform (NavLine.js 85-93 and 543-551).
NewNavLine(maxAnisotropy) ==
    /\ Len(instances) < MaxInstances
    /\ LET got == GetArrowTexture(cachedArrowTexture, created, maxAnisotropy)
       IN  /\ cachedArrowTexture' = got.texture
           /\ created' = got.created
           /\ instances' = Append(instances,
                               [maxAnisotropy |-> maxAnisotropy,
                                uTexture |-> got.texture.id,
                                disposed |-> FALSE])
    /\ UNCHANGED <<pathVars, colorVars, navVars, fragment>>

\* dispose() of the i-th instance (NavLine.js 454-460 and 837-843): geometry
\* and material are disposed of; nothing touches the texture or the cache.
DisposeNavLine(i) ==
    /\ i \in 1..Len(instances)
    /\ instances' = [instances EXCEPT ![i].disposed = TRUE]
    /\ UNCHANGED <<pathVars, colorVars, navVars, cacheVars, fragment>>

NextCache ==
    \/ \E maxAnisotropy \in Anisotropies : NewNavLine(maxAnisotropy)
    \/ \E i \in 1..MaxInstances : DisposeNavLine(i)

SpecCache == InitCache /\ [][NextCache]_vars

\* C11: over any constructions and disposals the module makes at most one
\* arrow texture, every instance's uTexture is that texture, and once made the
\* cached texture is never replaced, rebuilt or released.
C11_OneSharedTexture ==
    /\ [](/\ created <= 1
          /\ (created = 0) <=> (cachedArrowTexture = Null)
          /\ \A i \in 1..Len(instances) :
                /\ cachedArrowTexture # Null
                /\ instances[i].uTexture = cachedArrowTexture.id
          /\ cachedArrowTexture # Null => ~cachedArrowTexture.disposed)
    /\ [][cachedArrowTexture # Null
            => cachedArrowTexture' = cachedArrowTexture]_vars

\* C11's case: instances made for different anisotropy levels, one made for
\* another level than the cached texture's, one disposed of and one not.
C11_Witness ==
    /\ Len(instances) = MaxInstances
    /\ \E i, j \in 1..Len(instances) :
          /\ instances[i].maxAnisotropy # cachedArrowTexture.anisotropy
          /\ instances[i].disposed
          /\ ~instances[j].disposed
          /\ instances[j].uTexture = instances[i].uTexture

\* ------------------------------------------------ claims on RoundedPath
SegLen(k) == DistanceTo(At(points, k), At(points, k + 1))

Min(a, b) == IF a < b THEN a ELSE b

\* The line piece of segment k and the arc piece after segment k, in a path
\* built from three or more points (line, arc, line, ..., arc, line).
LineAt(k) == path[2 * k + 1]

ArcAt(k) == path[2 * k + 2]

StartOf(curve) == IF curve.type = "LineCurve3" THEN curve.v1 ELSE curve.v0

EndOf(curve) == curve.v2

Rounded == returned /\ Len(points) >= 3

PositiveSegments == \A k \in 0..(Len(points) - 2) : SegLen(k) > 0

\* C1: at every interior vertex V, between segments of positive lengths a and
\* b, the arc starts within min(a, b) / 2 of V and ends within min(a, b) / 2
\* of V.
C1_CornerWithinHalfOfBoth ==
    (Rounded /\ PositiveSegments) =>
        \A k \in 0..(Len(points) - 3) :
            LET V == At(points, k + 1)
                half2 == Min(SegLen(k), SegLen(k + 1))
            IN  /\ 2 * DistanceTo(ArcAt(k).v0, V) <= half2
                /\ 2 * DistanceTo(ArcAt(k).v2, V) <= half2

\* C2: the path is continuous: every piece ends where the next one starts.
C2_Continuous ==
    Rounded =>
        \A j \in 1..(Len(path) - 1) : EndOf(path[j]) = StartOf(path[j + 1])

\* The stretch of segment k, at its start, that the arc of the previous
\* corner covers, and the stretch at its end that the next corner's arc covers.
StartStretch(k) ==
    IF k > 0 THEN DistanceTo(At(points, k), ArcAt(k - 1).v2) ELSE 0

EndStretch(k) ==
    IF k < Len(points) - 2
    THEN DistanceTo(ArcAt(k).v0, At(points, k + 1)) ELSE 0

\* C3: neighbouring arcs never overlap: on every segment, of length d, the
\* stretch taken by the arriving arc plus the stretch taken by the leaving arc
\* is at most d, and the straight piece runs forward from its start to its end
\* between the two (it has no negative length).
C3_ArcsNeverOverlap ==
    Rounded =>
        \A k \in 0..(Len(points) - 2) :
            /\ StartStretch(k) + EndStretch(k) <= SegLen(k)
            /\ DistanceTo(At(points, k), LineAt(k).v1)
                 + DistanceTo(LineAt(k).v1, LineAt(k).v2)
                 + DistanceTo(LineAt(k).v2, At(points, k + 1)) = SegLen(k)

\* C3's case: a segment between two corners, too short for the requested
\* radius at both ends, with an arc taking a stretch at each end.
C3_Witness ==
    /\ Rounded
    /\ \E k \in 1..(Len(points) - 3) :
          /\ SegLen(k) < 2 * radius
          /\ StartStretch(k) > 0
          /\ EndStretch(k) > 0
          /\ StartStretch(k) + EndStretch(k) = SegLen(k)

\* C16: at a joint that touches a zero-length segment (a duplicated control
\* point) the corner is sharp: the arc starts at the vertex and ends at the
\* vertex, whatever the radius and the length of the other segment.
C16_ZeroSegmentSharpCorner ==
    Rounded =>
        \A k \in 0..(Len(points) - 3) :
            (SegLen(k) = 0 \/ SegLen(k + 1) = 0) =>
                /\ ArcAt(k).v0 = At(points, k + 1)
                /\ ArcAt(k).v2 = At(points, k + 1)

\* C17: from exactly 2 control points the path is one straight segment from
\* points[0] to points[1], with no arc, whatever the radius.
C17_TwoPointsOneLine ==
    (returned /\ Len(points) = 2) =>
        path = <<[type |-> "LineCurve3", v1 |-> At(points, 0),
                  v2 |-> At(points, 1)]>>

\* C17's case: 2 distinct points, closer than twice the requested radius.
C17_Witness ==
    /\ returned
    /\ Len(points) = 2
    /\ SegLen(0) > 0
    /\ SegLen(0) < 2 * radius
    /\ Len(path) = 1

\* C22: from n >= 3 control points the path has n - 1 straight pieces and
\* n - 2 quadratic arcs, alternating line, arc, line, ..., arc, line; the first
\* piece starts at points[0] and the last piece ends at points[n - 1]; the
\* control point of each arc is the interior vertex it rounds; and the call
\* leaves the input points as they were.
C22_AlternatingUntrimmedEnds ==
    /\ [](Rounded =>
            LET n == Len(points)
            IN  /\ Len(path) = (n - 1) + (n - 2)
                /\ \A k \in 0..(n - 2) : LineAt(k).type = "LineCurve3"
                /\ \A k \in 0..(n - 3) :
                      /\ ArcAt(k).type = "QuadraticBezierCurve3"
                      /\ ArcAt(k).v1 = At(points, k + 1)
                /\ LineAt(0).v1 = At(points, 0)
                /\ LineAt(n - 2).v2 = At(points, n - 1))
    /\ [][points' = points]_vars

\* C22's case: four control points and a positive radius, so that the path
\* has two arcs and both inner ends of the first and last pieces are trimmed.
C22_Witness ==
    /\ Rounded
    /\ Len(points) = 4
    /\ radius > 0
    /\ PositiveSegments
    /\ Len(path) = 5
    /\ LineAt(0).v2 # At(points, 1)
    /\ LineAt(2).v1 # At(points, 2)

\* ------------------------------------------------- claims on _getColor
\* start <= p <= end, for p and the limits as <<numerator, denominator>> with
\* positive denominators.
InRange(p, seg) ==
    /\ seg.start[1] * p[2] <= p[1] * seg.start[2]
    /\ p[1] * seg.end[2] <= seg.end[1] * p[2]

\* C6: _getColor returns the colour of the first segment, in list order, with
\* start <= p <= end; with no such segment, the colour of the last segment;
\* with an empty or a missing list, the default colour.
C6_FirstMatchElseLastElseDefault ==
    color # "none" =>
        IF trafficData.type # "Array" THEN color = DefaultColor
        ELSE LET items == trafficData.items
                 matching == {j \in 1..Len(items) : InRange(progress, items[j])}
             IN  IF Len(items) = 0 THEN color = DefaultColor
                 ELSE IF matching = {} THEN color = items[Len(items)].color
                 ELSE \E j \in matching :
                          /\ \A k \in matching : j <= k
                          /\ color = items[j].color

\* C6's case: p on the limit that two segments share; the earlier one wins.
C6_Witness ==
    /\ color # "none"
    /\ trafficData.type = "Array"
    /\ Len(trafficData.items) = 2
    /\ trafficData.items[1].end = progress
    /\ trafficData.items[2].start = progress
    /\ InRange(progress, trafficData.items[1])
    /\ InRange(progress, trafficData.items[2])
    /\ color = trafficData.items[1].color

\* --------------------------------------------------- claims on NavLine
Count == Len(curvePoints)

\* The screen distance written for sample i (its first body vertex).
Dist(i) == mesh.aScreenDist[bodyVertexStart + 2 * i + 1]

LiveScreen == status = "live" /\ variant = "screen"

\* Whether the last projection classified sample i as behind the camera, and
\* the pixel position it gave sample i.
Behind(i) == IsBehind(projected.camera, At(curvePoints, i), Count - 1)

Pixel(i) == ScreenPos(projected.camera, At(curvePoints, i), Count - 1,
                      projected.win)

\* C4: a polyline of 0 or 1 control points is built without an exception, in
\* both variants.
C4_NoFaultOnMalformed ==
    Len(originalPoints) < 2 => status # "threw"

\* C5: a path of 2 or more control points is sampled to at least 2 sample
\* points, in both variants, so that the tangent computation finds samples 0,
\* 1, count - 2 and count - 1.
C5_AtLeastTwoSamples ==
    (status \in {"live", "threw"} /\ Len(originalPoints) >= 2) =>
        /\ Count >= 2
        /\ \A i \in 0..(Count - 1) : At(curvePoints, i) # NoPoint
        /\ status = "live"

\* C7: the screen distances written for the samples start at 0 and never
\* decrease along the sample sequence, whatever the camera sees.
C7_ScreenDistNonDecreasing ==
    LiveScreen =>
        /\ Dist(0) = 0
        /\ \A i \in 1..(Count - 1) : Dist(i) >= Dist(i - 1)

\* C7's case: a projection with samples behind the camera and samples in
\* front of it, and a distance that has grown.
C7_Witness ==
    /\ LiveScreen
    /\ projected # Undefined
    /\ \E i \in 0..(Count - 1) : Behind(i)
    /\ \E i \in 0..(Count - 1) : ~Behind(i)
    /\ Dist(Count - 1) > 0

\* C8: where sample i or sample i - 1 is behind the camera the distance of
\* sample i is that of sample i - 1; where both are in front of it, the
\* distance grows by the pixel distance of the two.
C8_FrozenBehindCamera ==
    (LiveScreen /\ projected # Undefined) =>
        \A i \in 1..(Count - 1) :
            IF Behind(i) \/ Behind(i - 1)
            THEN Dist(i) = Dist(i - 1)
            ELSE Dist(i) - Dist(i - 1) =
                     Abs(Pixel(i)[1] - Pixel(i - 1)[1])
                       + Abs(Pixel(i)[2] - Pixel(i - 1)[2])

\* C8's case: a sample in front of the camera right after one behind it, at
\* another pixel, and a pair in front of the camera whose distance grows.
C8_Witness ==
    /\ LiveScreen
    /\ projected # Undefined
    /\ \E i \in 1..(Count - 1) :
          Behind(i - 1) /\ ~Behind(i) /\ Pixel(i) # Pixel(i - 1)
    /\ \E i \in 1..(Count - 1) :
          ~Behind(i - 1) /\ ~Behind(i) /\ Dist(i) > Dist(i - 1)

ZeroUpdate(call) ==
    call.op = "update" /\ call.deltaTime = 0 /\ call.withCamera

\* C9: update(0, camera) made right after update(0, camera), the camera, the
\* path and the window unchanged, leaves the screen distances and the offset
\* as the first call left them.
C9_UpdateZeroIdempotent ==
    [][(ZeroUpdate(lastCall) /\ ZeroUpdate(lastCall') /\ lastCall'.repeat = 2)
          => /\ mesh'.aScreenDist = mesh.aScreenDist
             /\ material'.uOffset = material.uOffset
             /\ accumulatedTime' = accumulatedTime]_vars

\* C9's case: the second update(0, camera) in a row has been made, with an
\* offset and distances that are not 0.
C9_Witness ==
    /\ LiveScreen
    /\ ZeroUpdate(lastCall)
    /\ lastCall.repeat = 2
    /\ accumulatedTime > 0
    /\ Dist(Count - 1) > 0

\* C10: the offset is the configured speed times the sum of the time steps,
\* and uOffset holds it, in both variants.
C10_OffsetIsSpeedTimesElapsed ==
    status = "live" =>
        /\ accumulatedTime = config.speed * elapsed
        /\ material.uOffset = accumulatedTime

\* The mesh without the contents of its screen-distance attribute.
OtherThanScreenDist(m) == [m EXCEPT !.aScreenDist = <<>>]

\* C18: an update (made directly, by animate or by the resize listener) never
\* rebuilds: the mesh object, the sample points, the vertex and index buffers
\* and every attribute but the screen distances stay; only the offset, the
\* cached resolution and, in the screen-space variant with a camera, the
\* screen distances may change.
C18_UpdateNeverRebuilds ==
    [][(status = "live" /\ lastCall'.op \in {"update", "animate", "resize"})
          => /\ OtherThanScreenDist(mesh') = OtherThanScreenDist(mesh)
             /\ Len(mesh'.aScreenDist) = Len(mesh.aScreenDist)
             /\ (variant = "world" \/ ~lastCall'.withCamera) => mesh' = mesh
             /\ curvePoints' = curvePoints
             /\ bodyVertexStart' = bodyVertexStart
             /\ scene' = scene
             /\ config' = config
             /\ originalPoints' = originalPoints
             /\ [material' EXCEPT !.uOffset = 0, !.uResolution = <<0, 0>>]
                  = [material EXCEPT !.uOffset = 0, !.uResolution = <<0, 0>>]
      ]_vars

\* C18's case: an update with a camera has rewritten the screen distances of
\* a mesh that is still the one the constructor built.
C18_Witness ==
    /\ LiveScreen
    /\ lastCall.op = "animate"
    /\ projected # Undefined
    /\ Dist(Count - 1) > 0
    /\ accumulatedTime > 0
    /\ mesh.id = 1

\* C19: the two body vertices of every sample hold the same distance, and no
\* entry outside the body range [bodyVertexStart, bodyVertexStart + 2 * count)
\* is written: the vertices of both caps, and only they, lie outside it, and
\* keep the 0 they were built with.
C19_BothSideVerticesOnly ==
    LiveScreen =>
        /\ \A i \in 0..(Count - 1) :
              mesh.aScreenDist[bodyVertexStart + 2 * i + 2] = Dist(i)
        /\ \A j \in 0..(mesh.vertexCount - 1) :
              IF j >= bodyVertexStart /\ j < bodyVertexStart + 2 * Count
              THEN mesh.aIsCap[j + 1] = 0
              ELSE mesh.aIsCap[j + 1] = 1 /\ mesh.aScreenDist[j + 1] = 0

\* C19's case: a projection has written distances that are not 0.
C19_Witness ==
    /\ LiveScreen
    /\ projected # Undefined
    /\ Dist(Count - 1) > 0
    /\ mesh.aScreenDist[bodyVertexStart + 2 * (Count - 1) + 2] > 0

\* The vertices a triangle of the index buffer references.
Corners(triangle) == {triangle[1], triangle[2], triangle[3]}

\* C20: a built mesh of N samples and K cap segments has 2N + 2(K + 2)
\* vertices, one entry for each in every attribute, 2(N - 1) body triangles
\* and K triangles for each cap, every index below the vertex count; the two
\* triangles of quad i reference the side vertices of samples i and i + 1, and
\* every cap triangle references its cap's centre and two consecutive ring
\* vertices of that cap.
C20_MeshWellFormed ==
    status = "live" =>
        LET N == mesh.count
            K == IF variant = "screen" THEN 32 ELSE 16
            V == 2 * N + 2 * (K + 2)
            body == K + 2
            endCap == body + 2 * N
            dist == IF variant = "screen" THEN mesh.aScreenDist
                    ELSE mesh.aPathDist
        IN  /\ N = Count
            /\ N >= 2
            /\ mesh.vertexCount = V
            /\ Len(mesh.position) = V
            /\ Len(mesh.aIsCap) = V
            /\ Len(dist) = V
            /\ Len(mesh.index) = K + 2 * (N - 1) + K
            /\ \A t \in 1..Len(mesh.index) :
                  \A c \in Corners(mesh.index[t]) : c >= 0 /\ c < V
            /\ \A t \in 1..K :
                  \E r \in 1..K : Corners(mesh.index[t]) = {0, r, r + 1}
            /\ \A i \in 0..(N - 2) :
                  LET quad == {body + 2 * i, body + 2 * i + 1,
                               body + 2 * i + 2, body + 2 * i + 3}
                      first == Corners(mesh.index[K + 2 * i + 1])
                      second == Corners(mesh.index[K + 2 * i + 2])
                  IN  /\ first \cup second = quad
                      /\ Cardinality(first) = 3
                      /\ Cardinality(second) = 3
            /\ \A t \in 1..K :
                  \E r \in 1..K :
                      Corners(mesh.index[K + 2 * (N - 1) + t])
                          = {endCap, endCap + r, endCap + r + 1}

\* C20's case: a world-unit mesh of three or more samples, and so of two or
\* more quads.
C20_Witness ==
    /\ status = "live"
    /\ variant = "world"
    /\ mesh.count >= 3
    /\ Len(mesh.index) > 2 * 16

\* Everything of the instance and of its scene, the record of the last call
\* apart.
Instance ==
    <<variant, originalPoints, config, status, mesh, material,
      accumulatedTime, resolution, curvePoints, bodyVertexStart, scene>>

\* C12: dispose() raises no fault, before or after a mesh exists; after it the
\* mesh is off the scene and geometry and material are released; a dispose()
\* right after a dispose() changes nothing of the instance or the scene.
C12_DisposeIdempotent ==
    [][lastCall'.op = "dispose"
          => /\ status' = status
             /\ mesh' # Null => (mesh'.id \notin scene' /\ mesh'.geometryDisposed)
             /\ material' # Null => material'.disposed
             /\ scene' \subseteq scene
             /\ lastCall.op = "dispose" => Instance' = Instance
      ]_vars

\* C12's case: dispose() called twice in a row on a NavLine that was built
\* and animated.
C12_Witness ==
    /\ status = "live"
    /\ lastCall.op = "dispose"
    /\ lastCall.repeat = 2
    /\ accumulatedTime > 0
    /\ mesh.geometryDisposed
    /\ scene = {}

\* C13: setArrowSpacing(v) changes config.arrowSpacing and uSpacing only, and
\* setLodBias(v) changes uLodBias only: the mesh and its buffers, the sample
\* points, the offset and the scene stay as they are.
C13_SettersUniformOnly ==
    [][/\ lastCall'.op = "setArrowSpacing"
          => /\ config' = [config EXCEPT !.arrowSpacing = lastCall'.value]
             /\ material' = [material EXCEPT !.uSpacing = lastCall'.value]
             /\ <<variant, originalPoints, status, mesh, accumulatedTime,
                  resolution, curvePoints, bodyVertexStart, scene>>'
                  = <<variant, originalPoints, status, mesh, accumulatedTime,
                      resolution, curvePoints, bodyVertexStart, scene>>
       /\ lastCall'.op = "setLodBias"
          => /\ material' = [material EXCEPT !.uLodBias = lastCall'.value]
             /\ <<variant, originalPoints, config, status, mesh,
                  accumulatedTime, resolution, curvePoints, bodyVertexStart,
                  scene>>'
                  = <<variant, originalPoints, config, status, mesh,
                      accumulatedTime, resolution, curvePoints,
                      bodyVertexStart, scene>>
      ]_vars

\* C13's case: the spacing set on a NavLine whose offset has advanced.
C13_Witness ==
    /\ status = "live"
    /\ lastCall.op = "setArrowSpacing"
    /\ material.uSpacing = lastCall.value
    /\ material.uSpacing # Defaults(variant).arrowSpacing
    /\ material.uOffset > 0
    /\ mesh.id \in scene

\* C14: in every state the mesh is the one derived from the current polyline
\* and corner radius: any change of them has been followed by a rebuild.
C14_MeshFromCurrentConfig ==
    status = "live" =>
        LET built == BuildGeometry(variant, originalPoints, config)
        IN  /\ ~built.threw
            /\ curvePoints = built.samples
            /\ mesh.count = built.mesh.count
            /\ mesh.position = built.mesh.position

\* C15: every divisor and modulus of the arrow tiling and LOD computation is
\* above 0, for every uniform value the instance can hold and every
\* derivative.
C15_DivisorsClamped ==
    status = "live" =>
        \A fwidth \in Derivatives :
            LET divisors == Divisors(variant, material.uWidth,
                                     material.uSpacing, fwidth)
            IN  \A k \in 1..Len(divisors) : divisors[k].by > 0

\* C21: at most one mesh of the NavLine is in the scene, always: every mesh a
\* rebuild has replaced is out of the scene with its geometry disposed of;
\* after the constructor and after any number of rebuilds the scene holds
\* exactly the one mesh the NavLine has now; and after dispose() it holds none.
C21_AtMostOneMeshAttached ==
    /\ Cardinality(scene) <= 1
    /\ \A d \in discarded : d.id \notin scene /\ d.geometryDisposed
    /\ (status = "live" /\ lastCall.op \in {"new", "rebuild", "assign"}) =>
          \/ scene = {mesh.id} /\ ~mesh.geometryDisposed
          \/ scene = {} /\ mesh.geometryDisposed /\ lastCall.op = "assign"
    /\ lastCall.op = "rebuild" => scene = {mesh.id}
    /\ lastCall.op = "dispose" => scene = {}

\* C21's case: the NavLine has been rebuilt twice, the second time after a
\* dispose(), and its third mesh is the one in the scene.
C21_Witness ==
    /\ status = "live"
    /\ lastCall.op = "rebuild"
    /\ mesh.id = 3
    /\ material.disposed
    /\ discarded = {[id |-> 1, geometryDisposed |-> TRUE],
                    [id |-> 2, geometryDisposed |-> TRUE]}
    /\ scene = {3}

\* The spacing on the screen, the thresholds and the factor of the fragment.
FragmentSpacing == SpacingPixels(fragment.uSpacing, fragment.fwidth)

FragmentMin == MinSpacing(fragment.uWidth, fragment.uLodBias)

FragmentMax == MaxSpacing(fragment.uWidth, fragment.uLodBias)

Shaded == fragment # Null /\ fragment.drawn

\* C23: in the world-unit shader, with s = uSpacing / max(mpp, 0.0001), the
\* factor on the glyph's opacity is 0 when s <= uWidth * 1.2 * uLodBias, is 1
\* when s >= uWidth * 2.5 * uLodBias, and never decreases as s grows (at any
\* other spacing or derivative that gives an s at least as large the factor
\* is at least as large); and after setLodBias has raised the bias the factor
\* of the same fragment is no larger than it was.
C23_LodFadeThresholdsMonotone ==
    Shaded =>
        /\ FragmentSpacing <= FragmentMin => fragment.arrowFactor = 0
        /\ FragmentSpacing >= FragmentMax =>
              fragment.arrowFactor = FadeSteps * FadeSteps * FadeSteps
        /\ \A uSpacing \in FragmentSpacings, fwidth \in FragmentDerivatives :
              SpacingPixels(uSpacing, fwidth) >= FragmentSpacing =>
                  ArrowFactor(fragment.uWidth, uSpacing, fragment.uLodBias,
                              fwidth) >= fragment.arrowFactor
        /\ (fragment.before # Undefined
               /\ fragment.uLodBias >= fragment.before.uLodBias) =>
              fragment.arrowFactor <= fragment.before.arrowFactor

\* C23's case: a fragment whose glyph spacing lies between the two thresholds
\* and is drawn partly faded; setLodBias then raises the bias and the next
\* frame draws no glyph there.
C23_Witness ==
    /\ Shaded
    /\ fragment.before # Undefined
    /\ fragment.uLodBias > fragment.before.uLodBias
    /\ fragment.before.arrowFactor > 0
    /\ fragment.before.arrowFactor < FadeSteps * FadeSteps * FadeSteps
    /\ FragmentSpacing <= FragmentMin
    /\ fragment.arrowFactor = 0
====
